---- MODULE Spec2Model ----
(***************************************************************************)
(* Model of src/CP2.py: class RoteadorMetroLondres.                        *)
(*                                                                         *)
(* Times are integers in tenths of a minute (1.5 min = 15).  The clock     *)
(* hora_atual is the number of tenths of a minute since 00:00 of the day   *)
(* datetime.strptime(..., "%H:%M") yields.  Station coordinates are        *)
(* positions in metres along one meridian, for which the haversine         *)
(* great-circle distance is the absolute difference of the positions.      *)
(***************************************************************************)
EXTENDS Integers, Sequences, FiniteSets, TLC

\* ------------------------------------------------------------------ bounds
MaxEdges == 3      \* station pairs in the edges_data handed to __init__
MaxQueries == 2    \* calls of encontrar_caminho on one router instance

\* ------------------------------------------------------- program constants
VELOCIDADE_TREM_KMH == 35
PENALIDADE_TROCA_LINHA_MIN == 30    \* 3.0 min, in tenths of a minute

\* ------------------------------------------------------------ input domains
StationSeq == <<"A", "B", "C">>
Stations == {StationSeq[k] : k \in 1..Len(StationSeq)}
UnknownStation == "Z"
Lines == {"L1", "L2"}
None == "None"
Modes == {"menor", "medio", "maior", "invalid"}
\* 10:50: a search crosses from the "before 11:00" bracket into the next one
StartTimes == {6500}

\* stations_data: station -> position in metres along a meridian
stations == [s \in Stations |->
               CASE s = "A" -> 0
                 [] s = "B" -> 1750
                 [] OTHER   -> 5250]

NameSeq == Append(StationSeq, UnknownStation)
NameIdx(s) == CHOOSE k \in 1..Len(NameSeq) : NameSeq[k] = s

\* station pairs of an edge list: two names without surrounding blanks, declared
\* or not; (a, b) and (b, a) build the same graph, so one order is enumerated
Pares ==
  {p \in (Stations \cup {UnknownStation}) \X (Stations \cup {UnknownStation}) :
     NameIdx(p[1]) <= NameIdx(p[2])}

\* ------------------------------------------------------------ sequence helpers
Range(s) == {s[k] : k \in 1..Len(s)}

\* the lists of 1..n station pairs
Conexoes(n) == UNION {[1..k -> Pares] : k \in 1..n}

\* edges_data in dict form: the items, in insertion order, of
\* {nome_linha: [(origem, destino), ...]} over the given lines, every line
\* with at least one pair and at most n pairs in all
RECURSIVE DictItems(_, _)
DictItems(lines, n) ==
  {<<>>} \cup
  UNION {UNION {{<<<<l, c>>>> \o rest : rest \in DictItems(lines \ {l}, n - Len(c))} :
                  c \in Conexoes(n)} :
           l \in lines}

DictInputs == DictItems(Lines, MaxEdges)

\* ------------------------------------------------------------- _build_graph
\* lines 41-48: the pairs of one line, in order
RECURSIVE AddConexoes(_, _, _)
AddConexoes(graph, nome_linha, conexoes) ==
  IF conexoes = <<>> THEN graph
  ELSE LET par == Head(conexoes)
           origem == par[1]
           destino == par[2]
           g1 == IF origem \notin DOMAIN graph \/ destino \notin DOMAIN graph
                 THEN graph
                 ELSE LET ga == [graph EXCEPT ![origem] =
                                   Append(@, [vizinho |-> destino, linha |-> nome_linha])]
                      IN [ga EXCEPT ![destino] =
                            Append(@, [vizinho |-> origem, linha |-> nome_linha])]
       IN AddConexoes(g1, nome_linha, Tail(conexoes))

RECURSIVE AddLinhas(_, _)
AddLinhas(graph, data) ==
  IF data = <<>> THEN graph
  ELSE AddLinhas(AddConexoes(graph, Head(data)[1], Head(data)[2]), Tail(data))

BuildGraph(data) == AddLinhas([name \in Stations |-> <<>>], data)

\* ---------------------------------------------------------------- cost model
Abs(x) == IF x < 0 THEN -x ELSE x

\* _haversine, in metres
Haversine(estacao1, estacao2) == Abs(stations[estacao2] - stations[estacao1])

\* (distancia_km / VELOCIDADE_TREM_KMH) * 60, in tenths of a minute
TempoDeslocamento(estacao1, estacao2) ==
  (Haversine(estacao1, estacao2) * 600) \div (VELOCIDADE_TREM_KMH * 1000)

Hour(hora_atual) == (hora_atual \div 600) % 24

TempoEspera(hora_atual) ==
  IF Hour(hora_atual) < 11 THEN 15
  ELSE IF Hour(hora_atual) >= 18 THEN 20
  ELSE 10

VARIABLES graph, memo, stack, phase, query, todos_caminhos, outcome,
          resultado_final, nqueries

vars == <<graph, memo, stack, phase, query, todos_caminhos, outcome,
          resultado_final, nqueries>>

NoQuery == [origem |-> None, destino |-> None, hora_inicio |-> 0, modo |-> None]

Init ==
  /\ graph \in {BuildGraph(d) : d \in DictInputs}
  /\ memo = <<>>
  /\ stack = <<>>
  /\ phase = "idle"
  /\ query = NoQuery
  /\ todos_caminhos = <<>>
  /\ outcome = "none"
  /\ resultado_final = None
  /\ nqueries = 0

\* ------------------------------------------- _encontrar_caminhos_recursivo
\* One frame per active call: its arguments (destino is query.destino in every
\* call), the position i of the for loop over graph[atual] (0: the call has
\* not passed its base-case and memo tests yet) and caminhos_encontrados.
Frame(atual, visitados, hora_atual, linha_anterior) ==
  [atual |-> atual, visitados |-> visitados, hora_atual |-> hora_atual,
   linha_anterior |-> linha_anterior, i |-> 0, caminhos_encontrados |-> <<>>]

Top == stack[Len(stack)]

\* line 105
Estado(f) == <<f.atual, f.visitados>>

\* lines 122-124
TrocaDeLinha(linha_anterior, linha_atual) ==
  linha_anterior # None /\ linha_anterior # linha_atual

\* lines 119-127
TempoTrecho(atual, vizinho, hora_atual, linha_anterior, linha_atual) ==
  TempoEspera(hora_atual) + TempoDeslocamento(atual, vizinho)
    + (IF TrocaDeLinha(linha_anterior, linha_atual)
       THEN PENALIDADE_TROCA_LINHA_MIN ELSE 0)

\* lines 137-142: the path of frame f through its i-th connection, then sub_caminho
CaminhoCompleto(f, sub_caminho) ==
  LET conexao == graph[f.atual][f.i]
      linha_atual == conexao.linha
  IN [caminho |-> <<f.atual>> \o sub_caminho.caminho,
      tempo |-> TempoTrecho(f.atual, conexao.vizinho, f.hora_atual,
                            f.linha_anterior, linha_atual) + sub_caminho.tempo,
      linhas |-> <<linha_atual>> \o sub_caminho.linhas,
      trocas |-> (IF TrocaDeLinha(f.linha_anterior, linha_atual) THEN 1 ELSE 0)
                   + sub_caminho.trocas]

\* The top call returns sub_caminhos: to encontrar_caminho (line 219) when it
\* is the outermost call, else to its caller, whose loop (lines 136-143)
\* appends one complete path per sub-path and moves to the next connection.
Return(sub_caminhos) ==
  IF Len(stack) = 1
  THEN /\ stack' = <<>>
       /\ todos_caminhos' = sub_caminhos
       /\ phase' = "select"
  ELSE LET n == Len(stack)
           f == stack[n - 1]
           novos == [k \in 1..Len(sub_caminhos) |-> CaminhoCompleto(f, sub_caminhos[k])]
       IN /\ stack' = [SubSeq(stack, 1, n - 1) EXCEPT ![n - 1] =
                         [f EXCEPT !.caminhos_encontrados = @ \o novos,
                                   !.i = @ + 1]]
          /\ UNCHANGED <<todos_caminhos, phase>>

\* lines 100-101
BaseCase ==
  /\ phase = "search"
  /\ Top.i = 0
  /\ Top.atual = query.destino
  /\ Return(<<[caminho |-> <<query.destino>>, tempo |-> 0, linhas |-> <<>>, trocas |-> 0]>>)
  /\ UNCHANGED <<graph, memo, query, outcome, resultado_final, nqueries>>

\* lines 105-107
MemoHit ==
  /\ phase = "search"
  /\ Top.i = 0
  /\ Top.atual # query.destino
  /\ Estado(Top) \in DOMAIN memo
  /\ Return(memo[Estado(Top)])
  /\ UNCHANGED <<graph, memo, query, outcome, resultado_final, nqueries>>

\* lines 110-113: the loop starts
EnterLoop ==
  /\ phase = "search"
  /\ Top.i = 0
  /\ Top.atual # query.destino
  /\ Estado(Top) \notin DOMAIN memo
  /\ stack' = [stack EXCEPT ![Len(stack)].i = 1]
  /\ UNCHANGED <<graph, memo, phase, query, todos_caminhos, outcome,
                 resultado_final, nqueries>>

\* line 117, test false: the connection leads to a station in visitados
SkipVisited ==
  /\ phase = "search"
  /\ Top.i \in 1..Len(graph[Top.atual])
  /\ graph[Top.atual][Top.i].vizinho \in Top.visitados
  /\ stack' = [stack EXCEPT ![Len(stack)].i = @ + 1]
  /\ UNCHANGED <<graph, memo, phase, query, todos_caminhos, outcome,
                 resultado_final, nqueries>>

\* lines 111, 117-133: the recursive call
Call ==
  /\ phase = "search"
  /\ Top.i \in 1..Len(graph[Top.atual])
  /\ LET f == Top
         conexao == graph[f.atual][f.i]
         vizinho == conexao.vizinho
         linha_atual == conexao.linha
         novos_visitados == f.visitados \cup {f.atual}
         tempo_trecho == TempoTrecho(f.atual, vizinho, f.hora_atual,
                                     f.linha_anterior, linha_atual)
         proxima_hora == f.hora_atual + tempo_trecho
     IN /\ vizinho \notin f.visitados
        /\ stack' = Append(stack, Frame(vizinho, novos_visitados, proxima_hora, linha_atual))
  /\ UNCHANGED <<graph, memo, phase, query, todos_caminhos, outcome,
                 resultado_final, nqueries>>

\* lines 146-147: the loop is over
StoreReturn ==
  /\ phase = "search"
  /\ Top.i > Len(graph[Top.atual])
  /\ memo' = (Estado(Top) :> Top.caminhos_encontrados) @@ memo
  /\ Return(Top.caminhos_encontrados)
  /\ UNCHANGED <<graph, query, outcome, resultado_final, nqueries>>

\* ------------------------------------------------------- encontrar_caminho
\* PyMin with the comparison turned around
RECURSIVE PyMinWrongCmp(_, _, _)
PyMinWrongCmp(s, k, best) ==
  IF k > Len(s) THEN best
  ELSE PyMinWrongCmp(s, k + 1, IF s[k].tempo > best.tempo THEN s[k] ELSE best)

\* min(todos_caminhos, key=tempo): the first element of least tempo
RECURSIVE PyMin(_, _, _)
PyMin(s, k, best) ==
  IF k > Len(s) THEN best
  ELSE PyMin(s, k + 1, IF s[k].tempo < best.tempo THEN s[k] ELSE best)

\* max(todos_caminhos, key=tempo): the first element of greatest tempo
RECURSIVE PyMax(_, _, _)
PyMax(s, k, best) ==
  IF k > Len(s) THEN best
  ELSE PyMax(s, k + 1, IF s[k].tempo > best.tempo THEN s[k] ELSE best)

\* sorted(todos_caminhos, key=tempo): ascending and stable; x goes after the
\* elements of the sorted prefix whose tempo is not greater
RECURSIVE Insert(_, _)
Insert(sorted, x) ==
  IF sorted = <<>> THEN <<x>>
  ELSE IF sorted[Len(sorted)].tempo <= x.tempo THEN Append(sorted, x)
  ELSE Append(Insert(SubSeq(sorted, 1, Len(sorted) - 1), x), sorted[Len(sorted)])

RECURSIVE PySorted(_)
PySorted(s) ==
  IF s = <<>> THEN <<>>
  ELSE Insert(PySorted(SubSeq(s, 1, Len(s) - 1)), s[Len(s)])

\* IdxMediano taking the upper of the two middle elements
IdxMedianoUpper(n) == n \div 2

\* line 237, 0-based
IdxMediano(n) == (n - 1) \div 2

\* SelecionarCaminho with the mode validated before the emptiness test
SelecionarCaminhoModeFirst(todos, modo) ==
  IF modo \notin {"menor", "maior", "medio"}
  THEN [outcome |-> "InvalidMode", resultado |-> None]
  ELSE IF todos = <<>> THEN [outcome |-> "NoPathFound", resultado |-> None]
  ELSE IF modo = "menor"
       THEN [outcome |-> "ok", resultado |-> PyMin(todos, 2, todos[1])]
  ELSE IF modo = "maior"
       THEN [outcome |-> "ok", resultado |-> PyMax(todos, 2, todos[1])]
  ELSE [outcome |-> "ok",
        resultado |-> PySorted(todos)[IdxMediano(Len(todos)) + 1]]

\* lines 223-241: the outcome and resultado_final for the enumerated paths
SelecionarCaminho(todos, modo) ==
  IF todos = <<>> THEN [outcome |-> "NoPathFound", resultado |-> None]
  ELSE IF modo = "menor"
       THEN [outcome |-> "ok", resultado |-> PyMin(todos, 2, todos[1])]
  ELSE IF modo = "maior"
       THEN [outcome |-> "ok", resultado |-> PyMax(todos, 2, todos[1])]
  ELSE IF modo = "medio"
       THEN [outcome |-> "ok",
             resultado |-> PySorted(todos)[IdxMediano(Len(todos)) + 1]]
  ELSE [outcome |-> "InvalidMode", resultado |-> None]

\* lines 213-215
QueryUnknown(origem, destino, hora_inicio, modo) ==
  /\ phase = "idle"
  /\ nqueries < MaxQueries
  /\ origem \notin DOMAIN stations \/ destino \notin DOMAIN stations
  /\ query' = [origem |-> origem, destino |-> destino,
               hora_inicio |-> hora_inicio, modo |-> modo]
  /\ outcome' = "UnknownStation"
  /\ resultado_final' = None
  /\ todos_caminhos' = <<>>
  /\ nqueries' = nqueries + 1
  /\ UNCHANGED <<graph, memo, stack, phase>>

\* lines 213-221: the search starts
Query(origem, destino, hora_inicio, modo) ==
  /\ phase = "idle"
  /\ nqueries < MaxQueries
  /\ origem \in DOMAIN stations /\ destino \in DOMAIN stations
  /\ query' = [origem |-> origem, destino |-> destino,
               hora_inicio |-> hora_inicio, modo |-> modo]
  /\ stack' = <<Frame(origem, {}, hora_inicio, None)>>
  /\ phase' = "search"
  /\ outcome' = "pending"
  /\ resultado_final' = None
  /\ todos_caminhos' = <<>>
  /\ nqueries' = nqueries + 1
  /\ UNCHANGED <<graph, memo>>

\* lines 223-251: the selection, once the search has returned
Select ==
  /\ phase = "select"
  /\ LET r == SelecionarCaminho(todos_caminhos, query.modo)
     IN /\ outcome' = r.outcome
        /\ resultado_final' = r.resultado
  /\ phase' = "idle"
  /\ UNCHANGED <<graph, memo, stack, query, todos_caminhos, nqueries>>

Next ==
  \/ \E o, d \in Stations \cup {UnknownStation}, h \in StartTimes, m \in Modes :
       QueryUnknown(o, d, h, m)
  \/ \E o, d \in Stations, h \in StartTimes, m \in Modes : Query(o, d, h, m)
  \/ BaseCase
  \/ MemoHit
  \/ EnterLoop
  \/ SkipVisited
  \/ Call
  \/ StoreReturn
  \/ Select

Spec == Init /\ [][Next]_vars
\* =================================================================== claims
\* The search of the current query has returned its paths to encontrar_caminho
Returned == phase = "select" \/ (phase = "idle" /\ outcome \in {"ok", "NoPathFound", "InvalidMode"})

\* encontrar_caminho has finished a query between two declared stations
Finished == phase = "idle" /\ outcome \in {"ok", "NoPathFound", "InvalidMode"}

\* The first call on the router: the memo was empty when the search started
FirstQuery == nqueries = 1

\* The simple paths of the graph from o to d, one per sequence of adjacency
\* entries: the stations, all different, and for each step the position in
\* graph[station] of the entry that is followed
Rotas(o, d) ==
  LET MaxDeg == 2 * MaxEdges
      N == Cardinality(Stations)
      Cands == UNION {[1..n -> Stations] \X [1..(n - 1) -> 1..MaxDeg] : n \in 1..N}
  IN {r \in Cands :
        LET c == r[1]
            ix == r[2]
        IN /\ c[1] = o /\ c[Len(c)] = d
           /\ \A j, k \in 1..Len(c) : j # k => c[j] # c[k]
           /\ \A k \in 1..Len(ix) :
                /\ ix[k] <= Len(graph[c[k]])
                /\ graph[c[k]][ix[k]].vizinho = c[k + 1]}

LinhasDe(r) == [k \in 1..Len(r[2]) |-> graph[r[1][k]][r[2][k]].linha]

\* number of adjacent pairs of the line sequence that differ
NumTrocas(linhas) == Cardinality({k \in 1..(Len(linhas) - 1) : linhas[k] # linhas[k + 1]})

\* total time of a path walked from its k-th station on, the clock and the
\* line of the preceding edge given
RECURSIVE TempoDoCaminho(_, _, _, _, _)
TempoDoCaminho(caminho, linhas, k, clock, linha_anterior) ==
  IF k > Len(linhas) THEN 0
  ELSE LET wait == TempoEspera(clock)
           travel == TempoDeslocamento(caminho[k], caminho[k + 1])
           penalty == IF linha_anterior # None /\ linha_anterior # linhas[k]
                      THEN PENALIDADE_TROCA_LINHA_MIN ELSE 0
           edge_time == wait + travel + penalty
       IN edge_time + TempoDoCaminho(caminho, linhas, k + 1, clock + edge_time, linhas[k])

\* C1: on a fresh router the search returns exactly the simple paths from
\* origin to destination, each once per sequence of adjacency entries, all
\* starting at origin, ending at destination and following adjacency entries;
\* origin = destination yields the single one-station zero-cost path.
C1_ExactlySimplePaths ==
  (Returned /\ FirstQuery) =>
    LET R == Rotas(query.origem, query.destino)
        Same(r, p) == p.caminho = r[1] /\ p.linhas = LinhasDe(r)
    IN /\ \A k \in 1..Len(todos_caminhos) : \E r \in R : Same(r, todos_caminhos[k])
       /\ \A r \in R :
            Cardinality({k \in 1..Len(todos_caminhos) : Same(r, todos_caminhos[k])})
              = Cardinality({r2 \in R : r2[1] = r[1] /\ LinhasDe(r2) = LinhasDe(r)})
       /\ query.origem = query.destino =>
            todos_caminhos = <<[caminho |-> <<query.origem>>, tempo |-> 0,
                                linhas |-> <<>>, trocas |-> 0]>>

\* C2: every path a search returns holds no station twice, and its station
\* sequence is one longer than its line sequence.
C2_PathsAreSimple ==
  Returned =>
    \A k \in 1..Len(todos_caminhos) :
      LET p == todos_caminhos[k]
      IN /\ \A i, j \in 1..Len(p.caminho) : i # j => p.caminho[i] # p.caminho[j]
         /\ Len(p.caminho) = Len(p.linhas) + 1

\* C3: mode menor selects an enumerated path whose time is <= every enumerated
\* path's time; mode maior one whose time is >= every enumerated path's time.
C3_FastestSlowest ==
  (Finished /\ todos_caminhos # <<>> /\ query.modo \in {"menor", "maior"}) =>
    /\ outcome = "ok"
    /\ resultado_final \in Range(todos_caminhos)
    /\ \A k \in 1..Len(todos_caminhos) :
         IF query.modo = "menor"
         THEN resultado_final.tempo <= todos_caminhos[k].tempo
         ELSE resultado_final.tempo >= todos_caminhos[k].tempo

\* C3 witness: the fastest path chosen is not the first one enumerated
C3_Witness ==
  /\ Finished /\ query.modo = "menor" /\ outcome = "ok"
  /\ \E k \in 2..Len(todos_caminhos) : todos_caminhos[k].tempo < todos_caminhos[1].tempo

\* C4: mode medio selects the element that exactly (n-1)//2 elements precede in
\* the ascending order by time, ties ordered by position in the enumeration.
C4_LowerMedian ==
  (Finished /\ todos_caminhos # <<>> /\ query.modo = "medio") =>
    /\ outcome = "ok"
    /\ \E i \in 1..Len(todos_caminhos) :
         /\ resultado_final = todos_caminhos[i]
         /\ Cardinality({j \in 1..Len(todos_caminhos) :
                           \/ todos_caminhos[j].tempo < todos_caminhos[i].tempo
                           \/ /\ todos_caminhos[j].tempo = todos_caminhos[i].tempo
                              /\ j < i})
              = (Len(todos_caminhos) - 1) \div 2

\* C4 witness: a median taken of an even number of paths of different times
C4_Witness ==
  /\ Finished /\ query.modo = "medio" /\ outcome = "ok"
  /\ Len(todos_caminhos) % 2 = 0
  /\ \E j, k \in 1..Len(todos_caminhos) : todos_caminhos[j].tempo < todos_caminhos[k].tempo

\* C5: every returned path's trocas is the number of adjacent pairs of its own
\* line sequence that differ.
C5_TrocasCountLineChanges ==
  Returned =>
    \A k \in 1..Len(todos_caminhos) :
      todos_caminhos[k].trocas = NumTrocas(todos_caminhos[k].linhas)

\* C6: a query between declared stations with no simple path between them ends
\* NoPathFound with no path selected, wherever it is in a sequence of queries.
C6_NoPathFound ==
  (Finished /\ Rotas(query.origem, query.destino) = {}) =>
    outcome = "NoPathFound" /\ resultado_final = None

\* C7 as stated: an unrecognized mode ends InvalidMode with no path selected,
\* whether or not a path exists.
C7_InvalidModeAlways ==
  (Finished /\ query.modo \notin {"menor", "medio", "maior"}) =>
    outcome = "InvalidMode" /\ resultado_final = None

\* C7 amended: an unrecognized mode selects no path; the outcome is InvalidMode
\* when the search returned at least one path and NoPathFound when it returned
\* none.
C7_InvalidModeUnlessEmpty ==
  (Finished /\ query.modo \notin {"menor", "medio", "maior"}) =>
    /\ resultado_final = None
    /\ outcome = IF todos_caminhos = <<>> THEN "NoPathFound" ELSE "InvalidMode"

\* C7 witness: an unrecognized mode met with paths enumerated
C7_Witness ==
  /\ Finished /\ query.modo = "invalid" /\ query.origem # query.destino
  /\ todos_caminhos # <<>> /\ outcome = "InvalidMode"

\* C8: on a fresh router every returned path's time is the sum of its edge
\* times wait + travel + penalty, the clock advanced by the preceding edges of
\* the same path and the penalty due exactly on a change of line.
C8_TempoIsSumOfEdgeTimes ==
  (Returned /\ FirstQuery) =>
    \A k \in 1..Len(todos_caminhos) :
      LET p == todos_caminhos[k]
      IN p.tempo = TempoDoCaminho(p.caminho, p.linhas, 1, query.hora_inicio, None)

\* What a freshly constructed router over the same graph computes: the
\* recursion of _encontrar_caminhos_recursivo run to completion from memo m,
\* giving the returned paths and the memo it leaves behind
RECURSIVE BuscaRecursiva(_, _, _, _, _, _), BuscaLoop(_, _, _)
BuscaRecursiva(atual, destino, visitados, hora_atual, linha_anterior, m) ==
  IF atual = destino
  THEN [caminhos |-> <<[caminho |-> <<destino>>, tempo |-> 0, linhas |-> <<>>, trocas |-> 0]>>,
        memo |-> m]
  ELSE IF <<atual, visitados>> \in DOMAIN m
  THEN [caminhos |-> m[<<atual, visitados>>], memo |-> m]
  ELSE LET f == [Frame(atual, visitados, hora_atual, linha_anterior) EXCEPT !.i = 1]
           r == BuscaLoop(f, destino, m)
       IN [caminhos |-> r.caminhos,
           memo |-> (<<atual, visitados>> :> r.caminhos) @@ r.memo]

BuscaLoop(f, destino, m) ==
  IF f.i > Len(graph[f.atual])
  THEN [caminhos |-> f.caminhos_encontrados, memo |-> m]
  ELSE LET conexao == graph[f.atual][f.i]
       IN IF conexao.vizinho \in f.visitados
          THEN BuscaLoop([f EXCEPT !.i = @ + 1], destino, m)
          ELSE LET proxima_hora == f.hora_atual
                     + TempoTrecho(f.atual, conexao.vizinho, f.hora_atual,
                                   f.linha_anterior, conexao.linha)
                   sub == BuscaRecursiva(conexao.vizinho, destino,
                                         f.visitados \cup {f.atual},
                                         proxima_hora, conexao.linha, m)
                   novos == [k \in 1..Len(sub.caminhos) |->
                               CaminhoCompleto(f, sub.caminhos[k])]
               IN BuscaLoop([f EXCEPT !.caminhos_encontrados = @ \o novos,
                                      !.i = @ + 1],
                            destino, sub.memo)

RoteadorNovo(origem, destino, hora_inicio) ==
  BuscaRecursiva(origem, destino, {}, hora_inicio, None, <<>>).caminhos

\* C9: the paths a search returns, at any point of a sequence of queries on
\* one router, are those a freshly constructed router over the same graph
\* returns for that query alone; each ends at the query's destination.
C9_SameAsFreshRouter ==
  Returned =>
    /\ todos_caminhos = RoteadorNovo(query.origem, query.destino, query.hora_inicio)
    /\ \A k \in 1..Len(todos_caminhos) :
         todos_caminhos[k].caminho[Len(todos_caminhos[k].caminho)] = query.destino

\* C10: along the nested calls the visited set strictly grows and the nesting
\* depth is at most the number of stations plus one.
C10_VisitedStrictlyGrows ==
  /\ Len(stack) <= Cardinality(Stations) + 1
  /\ \A k \in 2..Len(stack) :
       /\ stack[k - 1].visitados \subseteq stack[k].visitados
       /\ stack[k - 1].visitados # stack[k].visitados
====
